---------------------------- MODULE Spec2Model ----------------------------
(***************************************************************************)
(* The shopping-cart engine of simple-tienda: the reducer of               *)
(* src/src/contexts/cart-context.tsx, the summary calculator of            *)
(* src/src/types/cart.ts and the provider (CartProvider) that dispatches   *)
(* into the reducer and persists the cart in localStorage.                 *)
(*                                                                         *)
(* Money.  The code computes with JavaScript numbers (subtotal * 0.19,     *)
(* subtotal * value / 100).  The model holds every amount in hundredths of *)
(* the currency unit (Cents), so that both products are exact integers for *)
(* the whole-unit prices of the catalogue below (PercentOf).               *)
(*                                                                         *)
(* Not modelled: lastUpdated and addedAt (clock reads no claim is about)   *)
(* and the free-text notes of a line item.  A coupon's validFrom and       *)
(* validUntil are held as validNow: whether the current time lies between  *)
(* them.                                                                   *)
(*                                                                         *)
(* Two specifications.  Spec takes a handler with the render and the save  *)
(* effect that follow it as one step.  EffectSpec takes the dispatches,    *)
(* the renders, the load and save effects and the drawer's timer as steps  *)
(* of their own: cart is the state of the reducer, rendered the cart of    *)
(* the last render (what the callbacks and effects close over), pc the     *)
(* effect that runs next, pending the quantity change the drawer holds     *)
(* during its delay, writable whether localStorage.setItem succeeds.       *)
(***************************************************************************)
EXTENDS Integers, Sequences, FiniteSets, TLC

VARIABLES cart, storage, mounted, error, rendered, pc, pending, writable

vars == <<cart, storage, mounted, error, rendered, pc, pending, writable>>

\* The variables only the steps of EffectSpec change.
effectVars == <<pc, pending, writable>>

---------------------------------------------------------------------------
(* Program constants (src/src/types/cart.ts, CART_CONSTANTS).              *)

\* MAX_ITEMS is 50 in the source; the model is checked with a small value.
MAX_ITEMS == 2

\* MAX_QUANTITY_PER_ITEM is 99 in the source; the model is checked with a small value.
MAX_QUANTITY_PER_ITEM == 3

\* TAX_RATE: 0.19, as a percentage.
TAX_RATE_PERCENT == 19

FREE_SHIPPING_THRESHOLD == 150000

\* The flat shipping fee of calculateCartSummary.
SHIPPING_FEE == 15000

---------------------------------------------------------------------------
(* Bounds of the environment.                                              *)

\* ApplyCoupon is not offered when appliedCoupons already holds MaxCoupons.
MaxCoupons == 2

Cents(units) == units * 100

\* amount * percent / 100.  Every amount it is applied to is a whole number
\* of currency units, a multiple of 100 hundredths, so dividing first is
\* exact; it keeps the product within TLC's 32-bit integers.
PercentOf(amount, percent) == (amount \div 100) * percent

Min(a, b) == IF a <= b THEN a ELSE b

Max(a, b) == IF a >= b THEN a ELSE b

---------------------------------------------------------------------------
(* Inputs: the catalogue, the variants, the coupons, the quantities.       *)

\* "No variant selected" (selectedVariant undefined): its id and its
\* additionalPrice are both falsy, which is all the code tests.
NoVariant == [id |-> "", additionalPrice |-> 0]

Products ==
    { [id |-> "1", price |-> Cents(50000)],
      [id |-> "2", price |-> Cents(149999)] }

Variants == { NoVariant, [id |-> "a", additionalPrice |-> Cents(1000)] }

\* The quantities the commands of the model are issued with (the claims
\* quantify over the wider TestQuantities).
AddQuantities == {0, 1, MAX_QUANTITY_PER_ITEM + 1}

UpdateQuantities == {0, 1, MAX_QUANTITY_PER_ITEM + 1}

\* The payloads addToCart is called with: product "1" with or without its
\* variant, product "2" without.
AddPayloads ==
    { a \in [product : Products, quantity : AddQuantities, selectedVariant : Variants] :
        a.selectedVariant = NoVariant \/ a.product.id = "1" }

\* The coupons of the cart drawer (availableCoupons, CartDrawer.tsx) and a
\* fixed-amount coupon larger than any order total.  minOrderAmount and maxDiscount are 0
\* when the coupon does not set them (undefined is falsy, as 0 is).
WELCOME10 ==
    [code |-> "WELCOME10", type |-> "percentage", value |-> 10,
     minOrderAmount |-> Cents(50), maxDiscount |-> 0,
     active |-> TRUE, isActive |-> TRUE, validNow |-> TRUE]

SHIP5 ==
    [code |-> "SHIP5", type |-> "fixed", value |-> Cents(5),
     minOrderAmount |-> 0, maxDiscount |-> 0,
     active |-> TRUE, isActive |-> TRUE, validNow |-> TRUE]

SAVE20 ==
    [code |-> "SAVE20", type |-> "percentage", value |-> 20,
     minOrderAmount |-> Cents(100), maxDiscount |-> Cents(50),
     active |-> TRUE, isActive |-> TRUE, validNow |-> TRUE]

BIGFIXED ==
    [code |-> "BIGFIXED", type |-> "fixed", value |-> Cents(5000000),
     minOrderAmount |-> 0, maxDiscount |-> 0,
     active |-> TRUE, isActive |-> TRUE, validNow |-> TRUE]

\* Coupons the cart drawer does not offer and the Coupon type allows: a
\* percentage with a cap, a free-shipping coupon, an inactive coupon and a
\* coupon whose validity window has passed.
CAPPED10 ==
    [code |-> "CAPPED10", type |-> "percentage", value |-> 10,
     minOrderAmount |-> 0, maxDiscount |-> Cents(5000),
     active |-> TRUE, isActive |-> TRUE, validNow |-> TRUE]

FREESHIP ==
    [code |-> "FREESHIP", type |-> "free-shipping", value |-> 0,
     minOrderAmount |-> 0, maxDiscount |-> 0,
     active |-> TRUE, isActive |-> TRUE, validNow |-> TRUE]

INACTIVE ==
    [code |-> "INACTIVE", type |-> "fixed", value |-> Cents(5),
     minOrderAmount |-> 0, maxDiscount |-> 0,
     active |-> FALSE, isActive |-> FALSE, validNow |-> TRUE]

EXPIRED ==
    [code |-> "EXPIRED", type |-> "fixed", value |-> Cents(5),
     minOrderAmount |-> 0, maxDiscount |-> 0,
     active |-> TRUE, isActive |-> TRUE, validNow |-> FALSE]

\* String.prototype.toLowerCase on the coupon codes, as the drawer applies it
\* to the code typed in and to the codes it offers.
toLowerCase(code) ==
    CASE code = "WELCOME10" -> "welcome10"
      [] code = "SHIP5" -> "ship5"
      [] code = "SAVE20" -> "save20"
      [] code = "BIGFIXED" -> "bigfixed"
      [] OTHER -> code

\* The coupons applyCoupon is called with in the model (the claims quantify
\* over the wider TestCoupons).
Coupons == { WELCOME10, BIGFIXED }

\* crypto.randomUUID(): the id drawn by the first page load, and the ids a
\* later page load can draw (never the one it finds stored).
FirstSessionId == "s1"

SessionIds == { "s1", "s2" }

---------------------------------------------------------------------------
(* src/src/types/cart.ts                                                   *)

generateCartItemId(productId, variantId) ==
    IF variantId # "" THEN productId \o "-" \o variantId ELSE productId

\* The item ids AddPayloads can produce, and one id no item ever has.
ItemIds ==
    { generateCartItemId(a.product.id, a.selectedVariant.id) : a \in AddPayloads }

CommandItemIds == ItemIds \cup { "none" }

RECURSIVE SumTotalPrice(_)
SumTotalPrice(items) ==
    IF items = << >> THEN 0 ELSE Head(items).totalPrice + SumTotalPrice(Tail(items))

RECURSIVE SumQuantity(_)
SumQuantity(items) ==
    IF items = << >> THEN 0 ELSE Head(items).quantity + SumQuantity(Tail(items))

\* Mutant of calculateCartSummary: itemCount counts the lines, not the units.
calculateCartSummaryCountsLines(items) ==
    LET subtotal == SumTotalPrice(items)
        tax == PercentOf(subtotal, TAX_RATE_PERCENT)
        shipping == IF subtotal >= Cents(FREE_SHIPPING_THRESHOLD)
                    THEN 0 ELSE Cents(SHIPPING_FEE)
    IN  [subtotal |-> subtotal,
         shipping |-> shipping,
         tax |-> tax,
         discount |-> 0,
         couponDiscount |-> 0,
         total |-> subtotal + tax + shipping,
         savings |-> 0,
         itemCount |-> Len(items),
         uniqueItems |-> Len(items)]

\* Mutant of calculateCartSummary: shipping is free above the threshold only.
calculateCartSummaryStrictThreshold(items) ==
    LET subtotal == SumTotalPrice(items)
        tax == PercentOf(subtotal, TAX_RATE_PERCENT)
        shipping == IF subtotal > Cents(FREE_SHIPPING_THRESHOLD)
                    THEN 0 ELSE Cents(SHIPPING_FEE)
        discount == 0
        couponDiscount == 0
    IN  [subtotal |-> subtotal,
         shipping |-> shipping,
         tax |-> tax,
         discount |-> discount,
         couponDiscount |-> couponDiscount,
         total |-> subtotal + tax + shipping - discount - couponDiscount,
         savings |-> discount + couponDiscount,
         itemCount |-> SumQuantity(items),
         uniqueItems |-> Len(items)]

calculateCartSummary(items) ==
    LET subtotal == SumTotalPrice(items)
        tax == PercentOf(subtotal, TAX_RATE_PERCENT)
        shipping == IF subtotal >= Cents(FREE_SHIPPING_THRESHOLD)
                    THEN 0 ELSE Cents(SHIPPING_FEE)
        discount == 0
        couponDiscount == 0
    IN  [subtotal |-> subtotal,
         shipping |-> shipping,
         tax |-> tax,
         discount |-> discount,
         couponDiscount |-> couponDiscount,
         total |-> subtotal + tax + shipping - discount - couponDiscount,
         savings |-> discount + couponDiscount,
         itemCount |-> SumQuantity(items),
         uniqueItems |-> Len(items)]

---------------------------------------------------------------------------
(* src/src/contexts/cart-context.tsx: the reducer                          *)

initialCartState(sid) ==
    [items |-> << >>,
     summary |-> [subtotal |-> 0, shipping |-> 0, tax |-> 0, discount |-> 0,
                  couponDiscount |-> 0, total |-> 0, savings |-> 0,
                  itemCount |-> 0, uniqueItems |-> 0],
     appliedCoupons |-> << >>,
     sessionId |-> sid]

\* Mutant of FindIndex: the lookup compares the line's productId (as
\* getItemQuantity does), not its id.
FindIndexByProductId(items, itemId) ==
    IF \E i \in 1..Len(items) : items[i].productId = itemId
    THEN CHOOSE i \in 1..Len(items) :
            /\ items[i].productId = itemId
            /\ \A j \in 1..(i - 1) : items[j].productId # itemId
    ELSE 0

\* findIndex: the first index whose item has the id, 0 when there is none.
FindIndex(items, itemId) ==
    IF \E i \in 1..Len(items) : items[i].id = itemId
    THEN CHOOSE i \in 1..Len(items) :
            /\ items[i].id = itemId
            /\ \A j \in 1..(i - 1) : items[j].id # itemId
    ELSE 0

\* An existing line after a quantity change (ADD_ITEM and UPDATE_QUANTITY).
WithQuantity(item, newQuantity) ==
    [item EXCEPT !.quantity = newQuantity,
                 !.totalPrice = item.unitPrice * newQuantity,
                 !.subtotal = item.unitPrice * newQuantity]

NewItemUnitPrice(product, selectedVariant) ==
    IF selectedVariant.additionalPrice # 0
    THEN product.price + selectedVariant.additionalPrice
    ELSE product.price

\* Mutant of NewItem: the line total is taken as calculateItemSubtotal
\* (cart.ts:216-221) computes it, the variant's price added to a unit price
\* that holds it already.
NewItemCountsVariantTwice(itemId, product, quantity, selectedVariant) ==
    LET unitPrice == NewItemUnitPrice(product, selectedVariant)
    IN  [id |-> itemId,
         productId |-> product.id,
         product |-> product,
         quantity |-> quantity,
         selectedVariant |-> selectedVariant,
         unitPrice |-> unitPrice,
         priceAtAddTime |-> unitPrice,
         totalPrice |-> (unitPrice + selectedVariant.additionalPrice) * quantity,
         subtotal |-> (unitPrice + selectedVariant.additionalPrice) * quantity]

NewItem(itemId, product, quantity, selectedVariant) ==
    LET unitPrice == NewItemUnitPrice(product, selectedVariant)
    IN  [id |-> itemId,
         productId |-> product.id,
         product |-> product,
         quantity |-> quantity,
         selectedVariant |-> selectedVariant,
         unitPrice |-> unitPrice,
         priceAtAddTime |-> unitPrice,
         totalPrice |-> unitPrice * quantity,
         subtotal |-> unitPrice * quantity]

\* Mutant of MergedQuantity: the added quantity replaces the existing one.
MergedQuantityReplaces(existing, quantity) ==
    Min(quantity, MAX_QUANTITY_PER_ITEM)

MergedQuantity(existing, quantity) ==
    Min(existing + quantity, MAX_QUANTITY_PER_ITEM)

\* Mutant of LimitItems: the oldest lines are evicted, the newest kept.
LimitItemsKeepsNewest(newItems) ==
    IF Len(newItems) > MAX_ITEMS
    THEN SubSeq(newItems, Len(newItems) - MAX_ITEMS + 1, Len(newItems))
    ELSE newItems

LimitItems(newItems) ==
    IF Len(newItems) > MAX_ITEMS THEN SubSeq(newItems, 1, MAX_ITEMS) ELSE newItems

\* Mutant of ReduceAddItem: an existing line takes the price of the incoming
\* product.
ReduceAddItemRereadsPrice(state, payload) ==
    LET itemId == generateCartItemId(payload.product.id, payload.selectedVariant.id)
        existingItemIndex == FindIndex(state.items, itemId)
        newItems ==
            IF existingItemIndex >= 1
            THEN [i \in 1..Len(state.items) |->
                    IF i = existingItemIndex
                    THEN WithQuantity(
                             [state.items[i] EXCEPT !.unitPrice =
                                 NewItemUnitPrice(payload.product,
                                                  payload.selectedVariant)],
                             MergedQuantity(state.items[i].quantity, payload.quantity))
                    ELSE state.items[i]]
            ELSE Append(state.items,
                        NewItem(itemId, payload.product, payload.quantity,
                                payload.selectedVariant))
        limited == LimitItems(newItems)
    IN  [state EXCEPT !.items = limited,
                      !.summary = calculateCartSummary(limited)]

ReduceAddItem(state, payload) ==
    LET itemId == generateCartItemId(payload.product.id, payload.selectedVariant.id)
        existingItemIndex == FindIndex(state.items, itemId)
        newItems ==
            IF existingItemIndex >= 1
            THEN [i \in 1..Len(state.items) |->
                    IF i = existingItemIndex
                    THEN WithQuantity(state.items[i],
                             MergedQuantity(state.items[i].quantity, payload.quantity))
                    ELSE state.items[i]]
            ELSE Append(state.items,
                        NewItem(itemId, payload.product, payload.quantity,
                                payload.selectedVariant))
        limited == LimitItems(newItems)
    IN  [state EXCEPT !.items = limited,
                      !.summary = calculateCartSummary(limited)]

\* Mutant of ReduceRemoveItem: items.splice(findIndex(...), 1), which
\* removes the last line when the id is absent (findIndex gives -1).
ReduceRemoveItemSplice(state, itemId) ==
    LET idx == FindIndex(state.items, itemId)
        at == IF idx >= 1 THEN idx ELSE Len(state.items)
        newItems == [i \in 1..(Len(state.items) - (IF at >= 1 THEN 1 ELSE 0)) |->
                        IF i < at THEN state.items[i] ELSE state.items[i + 1]]
    IN  [state EXCEPT !.items = newItems,
                      !.summary = calculateCartSummary(newItems)]

ReduceRemoveItem(state, itemId) ==
    LET newItems == SelectSeq(state.items, LAMBDA item : item.id # itemId)
    IN  [state EXCEPT !.items = newItems,
                      !.summary = calculateCartSummary(newItems)]

\* Mutant of UpdatedQuantity: no clamp.
UpdatedQuantityUnclamped(quantity) == quantity

UpdatedQuantity(quantity) == Min(quantity, MAX_QUANTITY_PER_ITEM)

ReduceUpdateQuantity(state, itemId, quantity) ==
    IF quantity <= 0
    THEN LET newItems == SelectSeq(state.items, LAMBDA item : item.id # itemId)
         IN  [state EXCEPT !.items = newItems,
                           !.summary = calculateCartSummary(newItems)]
    ELSE LET newItems ==
                [i \in 1..Len(state.items) |->
                    IF state.items[i].id = itemId
                    THEN WithQuantity(state.items[i], UpdatedQuantity(quantity))
                    ELSE state.items[i]]
         IN  [state EXCEPT !.items = newItems,
                           !.summary = calculateCartSummary(newItems)]

\* Mutant of ReduceClearCart: the applied coupons survive the clear.
ReduceClearCartKeepsCoupons(state) ==
    [initialCartState(state.sessionId) EXCEPT
        !.appliedCoupons = state.appliedCoupons]

ReduceClearCart(state) == initialCartState(state.sessionId)

\* The discount APPLY_COUPON computes for the coupon on a subtotal.
\* Mutant of CouponDiscount: the cap of a percentage coupon is ignored.
CouponDiscountUncapped(coupon, subtotal) ==
    IF coupon.type = "percentage"
    THEN PercentOf(subtotal, coupon.value)
    ELSE IF coupon.type = "fixed" THEN coupon.value
    ELSE 0

CouponDiscount(coupon, subtotal) ==
    IF coupon.type = "percentage"
    THEN LET d == PercentOf(subtotal, coupon.value)
         IN  IF coupon.maxDiscount # 0 THEN Min(d, coupon.maxDiscount) ELSE d
    ELSE IF coupon.type = "fixed" THEN coupon.value
    ELSE 0

ReduceApplyCoupon(state, coupon) ==
    LET newSummary == calculateCartSummary(state.items)
        couponDiscount == CouponDiscount(coupon, newSummary.subtotal)
    IN  [state EXCEPT
            !.summary = [newSummary EXCEPT
                            !.couponDiscount = couponDiscount,
                            !.total = newSummary.subtotal + newSummary.shipping
                                      + newSummary.tax - couponDiscount],
            !.appliedCoupons = Append(state.appliedCoupons, coupon)]

ReduceRemoveCoupon(state, couponCode) ==
    [state EXCEPT
        !.appliedCoupons = SelectSeq(state.appliedCoupons, LAMBDA c : c.code # couponCode),
        !.summary = calculateCartSummary(state.items)]

\* Mutant of Spread: the keys of a over those of b.
SpreadKeepsFirst(a, b) ==
    [k \in DOMAIN a \cup DOMAIN b |-> IF k \in DOMAIN a THEN a[k] ELSE b[k]]

\* { ...a, ...b }: the keys of b over those of a.
Spread(a, b) ==
    [k \in DOMAIN a \cup DOMAIN b |-> IF k \in DOMAIN b THEN b[k] ELSE a[k]]

\* Mutant of ReduceRestoreCart: the session id of the fresh module is kept.
ReduceRestoreCartFreshSession(sid, blob) ==
    LET merged == Spread(initialCartState(sid), blob)
    IN  [merged EXCEPT !.sessionId = sid,
                       !.appliedCoupons =
            IF "appliedCoupons" \in DOMAIN blob THEN blob.appliedCoupons ELSE << >>]

\* RESTORE_CART: { ...initialCartState, ...cart, appliedCoupons: cart.appliedCoupons || [] }.
ReduceRestoreCart(sid, blob) ==
    LET merged == Spread(initialCartState(sid), blob)
    IN  [merged EXCEPT !.appliedCoupons =
            IF "appliedCoupons" \in DOMAIN blob THEN blob.appliedCoupons ELSE << >>]

cartReducer(state, action) ==
    CASE action.type = "ADD_ITEM" -> ReduceAddItem(state, action.payload)
      [] action.type = "REMOVE_ITEM" -> ReduceRemoveItem(state, action.itemId)
      [] action.type = "UPDATE_QUANTITY" ->
            ReduceUpdateQuantity(state, action.itemId, action.quantity)
      [] action.type = "CLEAR_CART" -> ReduceClearCart(state)
      [] action.type = "APPLY_COUPON" -> ReduceApplyCoupon(state, action.coupon)
      [] action.type = "REMOVE_COUPON" -> ReduceRemoveCoupon(state, action.couponCode)
      [] action.type = "RESTORE_CART" -> ReduceRestoreCart(state.sessionId, action.cart)
      [] OTHER -> state

\* The error state of the provider (useState<string | null>(null)) and the
\* messages applyCoupon sets (the second without the amount it ends with).
NoError == "null"

InactiveMessage == "El cupon no esta activo"

MinimumMessage == "Compra minima requerida"

---------------------------------------------------------------------------
(* src/src/contexts/cart-context.tsx: CartProvider                         *)

NoBlob == [absent |-> TRUE]

\* No quantity change waits in the drawer.
NoPending == [itemId |-> "", quantity |-> 0, button |-> ""]

\* JSON.stringify(cart) then JSON.parse: every field the model keeps is a
\* finite number, a string, a boolean, an array or an object of these.
SavedBlob(c) == c

\* The load effect: RESTORE_CART of { ...initialCartState, ...parsedCart,
\* appliedCoupons: parsedCart.appliedCoupons || [] } when the slot holds a cart.
Loaded(fresh, slot) ==
    IF slot # NoBlob
    THEN cartReducer(fresh,
            [type |-> "RESTORE_CART",
             cart |-> [Spread(fresh, slot) EXCEPT !.appliedCoupons =
                         IF "appliedCoupons" \in DOMAIN slot
                         THEN slot.appliedCoupons ELSE << >>]])
    ELSE fresh

\* The effects of the first page load: the slot is empty, nothing is
\* restored, and the save effect writes the initial cart.
Mount ==
    /\ ~mounted
    /\ cart' = Loaded(cart, storage)
    /\ storage' = SavedBlob(cart')
    /\ mounted' = TRUE
    /\ UNCHANGED error
    /\ rendered' = cart'
    /\ UNCHANGED effectVars

\* A later page load: the module is evaluated again (initialCartState gets a
\* fresh sessionId, the error state starts at null), the load effect
\* restores the stored cart and the save effect writes the result.
Reload ==
    /\ mounted
    /\ \E sid \in SessionIds :
          /\ storage # NoBlob => sid # storage.sessionId
          /\ cart' = Loaded(initialCartState(sid), storage)
    /\ storage' = SavedBlob(cart')
    /\ error' = NoError
    /\ UNCHANGED mounted
    /\ rendered' = cart'
    /\ UNCHANGED effectVars

\* addToCart(payload): dispatch ADD_ITEM; the save effect follows the render.
addToCart ==
    /\ mounted
    /\ \E payload \in AddPayloads :
          cart' = cartReducer(cart, [type |-> "ADD_ITEM", payload |-> payload])
    /\ storage' = SavedBlob(cart')
    /\ UNCHANGED <<mounted, error>>
    /\ rendered' = cart'
    /\ UNCHANGED effectVars

removeFromCart ==
    /\ mounted
    /\ \E itemId \in CommandItemIds :
          cart' = cartReducer(cart, [type |-> "REMOVE_ITEM", itemId |-> itemId])
    /\ storage' = SavedBlob(cart')
    /\ UNCHANGED <<mounted, error>>
    /\ rendered' = cart'
    /\ UNCHANGED effectVars

updateQuantity ==
    /\ mounted
    /\ \E itemId \in CommandItemIds, quantity \in UpdateQuantities :
          cart' = cartReducer(cart, [type |-> "UPDATE_QUANTITY",
                                     itemId |-> itemId, quantity |-> quantity])
    /\ storage' = SavedBlob(cart')
    /\ UNCHANGED <<mounted, error>>
    /\ rendered' = cart'
    /\ UNCHANGED effectVars

clearCart ==
    /\ mounted
    /\ cart' = cartReducer(cart, [type |-> "CLEAR_CART"])
    /\ storage' = SavedBlob(cart')
    /\ UNCHANGED <<mounted, error>>
    /\ rendered' = cart'
    /\ UNCHANGED effectVars

\* The validation of applyCoupon, against the cart of the last render.
CouponAccepted(coupon, state) ==
    /\ coupon.isActive /\ coupon.active
    /\ ~(coupon.minOrderAmount # 0 /\ state.summary.subtotal < coupon.minOrderAmount)

\* applyCoupon(coupon) on the rendered cart: the cart and the error it
\* leaves.  A rejected coupon sets the error and dispatches nothing; an
\* accepted one is dispatched, the error cleared by the setError(null) the
\* function starts with.
StoreApplyCoupon(state, coupon) ==
    IF ~(coupon.isActive /\ coupon.active)
    THEN [cart |-> state, error |-> InactiveMessage]
    ELSE IF coupon.minOrderAmount # 0 /\ state.summary.subtotal < coupon.minOrderAmount
    THEN [cart |-> state, error |-> MinimumMessage]
    ELSE [cart |-> cartReducer(state, [type |-> "APPLY_COUPON", coupon |-> coupon]),
          error |-> NoError]

\* The save effect runs when the cart changed: after a rejection the slot
\* keeps the cart it holds.
applyCoupon ==
    /\ mounted
    /\ Len(cart.appliedCoupons) < MaxCoupons
    /\ \E coupon \in Coupons :
          /\ cart' = StoreApplyCoupon(cart, coupon).cart
          /\ error' = StoreApplyCoupon(cart, coupon).error
    /\ storage' = IF cart' # cart THEN SavedBlob(cart') ELSE storage
    /\ UNCHANGED mounted
    /\ rendered' = cart'
    /\ UNCHANGED effectVars

clearError ==
    /\ mounted
    /\ error' = NoError
    /\ UNCHANGED <<cart, storage, mounted, rendered>>
    /\ UNCHANGED effectVars

removeCoupon ==
    /\ mounted
    /\ \E coupon \in Coupons :
          cart' = cartReducer(cart, [type |-> "REMOVE_COUPON", couponCode |-> coupon.code])
    /\ storage' = SavedBlob(cart')
    /\ UNCHANGED <<mounted, error>>
    /\ rendered' = cart'
    /\ UNCHANGED effectVars

Init ==
    /\ cart = initialCartState(FirstSessionId)
    /\ storage = NoBlob
    /\ mounted = FALSE
    /\ error = NoError
    /\ rendered = cart
    /\ pc = "idle"
    /\ pending = NoPending
    /\ writable = TRUE

Next ==
    \/ Mount
    \/ Reload
    \/ addToCart
    \/ removeFromCart
    \/ updateQuantity
    \/ clearCart
    \/ applyCoupon
    \/ removeCoupon
    \/ clearError

Spec == Init /\ [][Next]_vars

---------------------------------------------------------------------------
(* CartProvider, CartDrawer and ProductCard step by step: EffectSpec       *)

\* A slot whose content JSON.parse rejects.
Malformed == [malformed |-> TRUE]

\* The product of the card and the line its first unit makes.
CardProduct == [id |-> "1", price |-> Cents(50000)]

CardPayload == [product |-> CardProduct, quantity |-> 1, selectedVariant |-> NoVariant]

CardLine == NewItem("1", CardProduct, 1, NoVariant)

\* Slots that parse to an object short of required fields: a cart without
\* its summary, and one without its items.
MissingSummaryBlob == [items |-> << CardLine >>]

MissingItemsBlob == [summary |-> calculateCartSummary(<< CardLine >>)]

PartialBlobs == { MissingSummaryBlob, MissingItemsBlob }

CorruptSlots == { Malformed } \cup PartialBlobs

\* The coupon the drawer is asked for.
DrawerCoupons == { WELCOME10 }

\* The load effect on the initial state: the reducer state and the slot it
\* leaves.  getItem gives null for an empty slot; JSON.parse throws on a
\* malformed one and the catch removes it; any object that parses is
\* restored.
LoadEffect(state, slot) ==
    IF slot = NoBlob THEN [cart |-> state, storage |-> slot]
    ELSE IF slot = Malformed THEN [cart |-> state, storage |-> NoBlob]
    ELSE [cart |-> Loaded(state, slot), storage |-> slot]

\* Mutant of SaveEffect: a write that throws is reported on the error state.
SaveEffectReportsFailure(slot, state, err, canWrite) ==
    [storage |-> IF canWrite THEN SavedBlob(state) ELSE slot,
     error |-> IF canWrite THEN err ELSE "Error saving cart"]

\* The save effect of a render: the slot and the error state it leaves.
\* setItem throws when the storage cannot be written; the catch logs.
SaveEffect(slot, state, err, canWrite) ==
    [storage |-> IF canWrite THEN SavedBlob(state) ELSE slot,
     error |-> err]

\* applyCoupon(coupon) called with the cart of the last render in its
\* closure (seen) while the reducer holds state.
ApplyCouponSeen(seen, state, coupon) ==
    IF ~(coupon.isActive /\ coupon.active)
    THEN [cart |-> state, error |-> InactiveMessage]
    ELSE IF coupon.minOrderAmount # 0 /\ seen.summary.subtotal < coupon.minOrderAmount
    THEN [cart |-> state, error |-> MinimumMessage]
    ELSE [cart |-> cartReducer(state, [type |-> "APPLY_COUPON", coupon |-> coupon]),
          error |-> NoError]

\* The session ids a slot holds.
SlotSessionIds(slot) ==
    IF "sessionId" \in DOMAIN slot THEN { slot.sessionId } ELSE {}

\* Every dispatch is rendered and its effects have run: a new event starts.
Settled == pc = "idle" /\ rendered = cart

\* The load effect of the first commit.
loadEffect ==
    /\ pc = "load"
    /\ cart' = LoadEffect(cart, storage).cart
    /\ storage' = LoadEffect(cart, storage).storage
    /\ mounted' = TRUE
    /\ pc' = "save"
    /\ UNCHANGED <<error, rendered, pending, writable>>

\* The save effect of a commit: it writes the cart that was rendered.
saveEffect ==
    /\ pc = "save"
    /\ storage' = SaveEffect(storage, rendered, error, writable).storage
    /\ error' = SaveEffect(storage, rendered, error, writable).error
    /\ pc' = "idle"
    /\ UNCHANGED <<cart, mounted, rendered, pending, writable>>

\* The render that follows one or more dispatches.
render ==
    /\ pc = "idle"
    /\ rendered # cart
    /\ rendered' = cart
    /\ pc' = "save"
    /\ UNCHANGED <<cart, storage, mounted, error, pending, writable>>

\* ProductCard: a click on add-to-cart adds one unit.
handleAddToCart ==
    /\ Settled
    /\ cart' = cartReducer(cart, [type |-> "ADD_ITEM", payload |-> CardPayload])
    /\ UNCHANGED <<storage, mounted, error, rendered, pc, pending, writable>>

\* removeFromCart(itemId), in an event of its own or after other calls of
\* the same event.
removeFromCartCall ==
    /\ pc = "idle"
    /\ \E i \in 1..Len(cart.items) :
          cart' = cartReducer(cart, [type |-> "REMOVE_ITEM", itemId |-> cart.items[i].id])
    /\ UNCHANGED <<storage, mounted, error, rendered, pc, pending, writable>>

\* applyCoupon(coupon), in an event of its own or after other calls of the
\* same event: it validates against the cart of the last render.
applyCouponCall ==
    /\ pc = "idle"
    /\ Len(cart.appliedCoupons) < MaxCoupons
    /\ \E coupon \in DrawerCoupons :
          /\ cart' = ApplyCouponSeen(rendered, cart, coupon).cart
          /\ error' = ApplyCouponSeen(rendered, cart, coupon).error
    /\ UNCHANGED <<storage, mounted, rendered, pc, pending, writable>>

\* CartDrawer: a click on plus or minus of a line.  The new quantity is
\* computed from the rendered line; the call of updateQuantity waits for
\* the delay, the buttons of the line disabled meanwhile.
handleQuantityChange ==
    /\ Settled
    /\ pending = NoPending
    /\ \E i \in 1..Len(rendered.items), button \in {"plus", "minus"} :
          LET newQuantity == rendered.items[i].quantity
                                + (IF button = "plus" THEN 1 ELSE 0 - 1)
          IN  /\ button = "minus" => rendered.items[i].quantity > 1
              /\ button = "plus" => rendered.items[i].quantity < MAX_QUANTITY_PER_ITEM
              /\ ~(newQuantity < 1 \/ newQuantity > MAX_QUANTITY_PER_ITEM)
              /\ pending' = [itemId |-> rendered.items[i].id,
                             quantity |-> newQuantity, button |-> button]
    /\ UNCHANGED <<cart, storage, mounted, error, rendered, pc, writable>>

\* CartDrawer: the delay is over, updateQuantity is called with the
\* quantity computed at the click.
handleQuantityChangeResume ==
    /\ Settled
    /\ pending # NoPending
    /\ cart' = cartReducer(cart, [type |-> "UPDATE_QUANTITY",
                                  itemId |-> pending.itemId,
                                  quantity |-> pending.quantity])
    /\ pending' = NoPending
    /\ UNCHANGED <<storage, mounted, error, rendered, pc, writable>>

\* The page is loaded again: the module is evaluated (a fresh session id),
\* the states start over, the timers of the old page are gone.
pageReload ==
    /\ Settled
    /\ \E sid \in SessionIds \ (SlotSessionIds(storage) \cup { cart.sessionId }) :
          /\ cart' = initialCartState(sid)
          /\ rendered' = initialCartState(sid)
    /\ error' = NoError
    /\ pending' = NoPending
    /\ mounted' = FALSE
    /\ pc' = "load"
    /\ UNCHANGED <<storage, writable>>

\* The first page load, on a slot that is empty or holds what another
\* version or another hand left in it.
EffectInit ==
    /\ cart = initialCartState(FirstSessionId)
    /\ rendered = cart
    /\ storage \in { NoBlob } \cup CorruptSlots
    /\ mounted = FALSE
    /\ error = NoError
    /\ pc = "load"
    /\ pending = NoPending
    /\ writable \in BOOLEAN

EffectNext ==
    \/ loadEffect
    \/ saveEffect
    \/ render
    \/ handleAddToCart
    \/ removeFromCartCall
    \/ applyCouponCall
    \/ handleQuantityChange
    \/ handleQuantityChangeResume
    \/ pageReload

EffectSpec == EffectInit /\ [][EffectNext]_vars

---------------------------------------------------------------------------
(* The inputs the claims quantify over: wider than the inputs the actions  *)
(* are issued with, since applying the reducer to them adds no states.     *)

TestQuantities == (0 - 2)..(MAX_QUANTITY_PER_ITEM + 2)

TestPayloads ==
    [product : Products, quantity : TestQuantities, selectedVariant : Variants]

TestCoupons == { WELCOME10, SHIP5, SAVE20, BIGFIXED }

TestItemIds ==
    { generateCartItemId(a.product.id, a.selectedVariant.id) : a \in TestPayloads }
        \cup { "none" }

AddItem(payload) == [type |-> "ADD_ITEM", payload |-> payload]

RemoveItem(itemId) == [type |-> "REMOVE_ITEM", itemId |-> itemId]

UpdateQuantity(itemId, quantity) ==
    [type |-> "UPDATE_QUANTITY", itemId |-> itemId, quantity |-> quantity]

ApplyCoupon(coupon) == [type |-> "APPLY_COUPON", coupon |-> coupon]

RemoveCoupon(code) == [type |-> "REMOVE_COUPON", couponCode |-> code]

ItemCommands ==
    { AddItem(a) : a \in TestPayloads }
        \cup { RemoveItem(x) : x \in TestItemIds }
        \cup { UpdateQuantity(x, q) : x \in TestItemIds, q \in TestQuantities }

\* The sum of the discount amounts of the coupons on a subtotal.
RECURSIVE SumCouponDiscounts(_, _)
SumCouponDiscounts(coupons, subtotal) ==
    IF coupons = << >> THEN 0
    ELSE CouponDiscount(Head(coupons), subtotal)
            + SumCouponDiscounts(Tail(coupons), subtotal)

\* The indices of the lines of a (product, variant) pair.
LinesOf(items, payload) ==
    { i \in 1..Len(items) :
        /\ items[i].productId = payload.product.id
        /\ items[i].selectedVariant.id = payload.selectedVariant.id }

---------------------------------------------------------------------------
(* Claims                                                                  *)

\* C1: in every reachable cart state summary.total equals
\* max(0, subtotal + tax + shipping - discount - couponDiscount); in
\* particular the total is never negative.
C1_TotalIsFlooredSum ==
    LET s == cart.summary
    IN  s.total = Max(0, s.subtotal + s.tax + s.shipping - s.discount - s.couponDiscount)

\* C2: the summary is a function of (items, appliedCoupons): in every
\* reachable state summary.couponDiscount is the sum of the discounts of the
\* coupons in appliedCoupons and summary.total is lowered by that sum (the
\* floor at 0 is left to C1: nothing is asked of a total the sum takes
\* below 0).
C2_SummaryFollowsAppliedCoupons ==
    LET s == cart.summary
        expected == SumCouponDiscounts(cart.appliedCoupons, s.subtotal)
        due == s.subtotal + s.tax + s.shipping - s.discount - expected
    IN  /\ s.couponDiscount = expected
        /\ due >= 0 => s.total = due

\* C3: after ApplyCoupon, and after RemoveCoupon, summary.couponDiscount is
\* the sum of the discount amounts of all coupons then in appliedCoupons.
CouponDiscountIsSum(state) ==
    state.summary.couponDiscount
        = SumCouponDiscounts(state.appliedCoupons, state.summary.subtotal)

C3_CouponDiscountSumsAllApplied ==
    /\ \A c \in TestCoupons :
          CouponAccepted(c, cart) => CouponDiscountIsSum(cartReducer(cart, ApplyCoupon(c)))
    /\ \A c \in TestCoupons :
          CouponDiscountIsSum(cartReducer(cart, RemoveCoupon(c.code)))

\* C4: in every reachable cart state every line item has a quantity in
\* 1..MAX_QUANTITY_PER_ITEM.
C4_QuantityInRange ==
    \A i \in 1..Len(cart.items) :
        cart.items[i].quantity \in 1..MAX_QUANTITY_PER_ITEM

\* C5: AddItem for a (product, variant) pair already in the cart adds no
\* line: the pair keeps exactly one line, whose quantity becomes
\* min(existing + added, MAX_QUANTITY_PER_ITEM), and the other lines are
\* untouched; AddItem(P, 2) then AddItem(P, 3) for a P not in a cart with
\* room gives exactly one line for P, of quantity min(5, MAX_QUANTITY_PER_ITEM).
C5_AddMergesIntoExistingLine ==
    /\ \A a \in TestPayloads :
          LinesOf(cart.items, a) # {} =>
            LET after == cartReducer(cart, AddItem(a)).items
            IN  /\ Len(after) = Len(cart.items)
                /\ Cardinality(LinesOf(after, a)) = 1
                /\ \A i \in 1..Len(cart.items) :
                      IF i \in LinesOf(cart.items, a)
                      THEN after[i].quantity =
                             Min(cart.items[i].quantity + a.quantity,
                                 MAX_QUANTITY_PER_ITEM)
                      ELSE after[i] = cart.items[i]
    /\ \A p \in Products :
          LET add2 == [product |-> p, quantity |-> 2, selectedVariant |-> NoVariant]
              add3 == [product |-> p, quantity |-> 3, selectedVariant |-> NoVariant]
              after == cartReducer(cartReducer(cart, AddItem(add2)), AddItem(add3)).items
          IN  (LinesOf(cart.items, add2) = {} /\ Len(cart.items) < MAX_ITEMS) =>
                /\ Len(after) = Len(cart.items) + 1
                /\ Cardinality(LinesOf(after, add2)) = 1
                /\ \A i \in LinesOf(after, add2) :
                      after[i].quantity = Min(5, MAX_QUANTITY_PER_ITEM)

\* A line of quantity 2: the commands of the model add 0, 1 or
\* MAX_QUANTITY_PER_ITEM + 1 and set 1 or MAX_QUANTITY_PER_ITEM, so a 2 is
\* the sum of two AddItem on the same pair.
C5_Witness ==
    \E i \in 1..Len(cart.items) :
        cart.items[i].quantity = 2 /\ MAX_QUANTITY_PER_ITEM > 2

\* C6: items.length <= MAX_ITEMS in every reachable state, and AddItem of a
\* pair not in a cart of MAX_ITEMS lines leaves the lines as they are, in
\* the same order.
C6_CapKeepsExistingItems ==
    /\ Len(cart.items) <= MAX_ITEMS
    /\ \A a \in TestPayloads :
          (Len(cart.items) = MAX_ITEMS /\ LinesOf(cart.items, a) = {}) =>
            cartReducer(cart, AddItem(a)).items = cart.items

\* A full cart, and a pair of the catalogue that is not in it.
C6_Witness ==
    /\ Len(cart.items) = MAX_ITEMS
    /\ \E a \in AddPayloads : LinesOf(cart.items, a) = {}

\* C7: in every reachable cart state the line items have pairwise distinct ids.
C7_ItemIdsDistinct ==
    \A i, j \in 1..Len(cart.items) :
        i # j => cart.items[i].id # cart.items[j].id

\* Several lines, one of them the result of a merge (see C5_Witness).
C7_Witness ==
    /\ Len(cart.items) >= 2
    /\ \E i \in 1..Len(cart.items) : cart.items[i].quantity = 2

\* C8: in every reachable cart state summary.itemCount is the sum of the
\* quantities of the lines and summary.uniqueItems is the number of lines.
C8_CountsMatchItems ==
    /\ cart.summary.itemCount = SumQuantity(cart.items)
    /\ cart.summary.uniqueItems = Len(cart.items)

\* A cart of several units whose summary a coupon command produced, stored
\* and restored as it is.
C8_Witness ==
    /\ cart.summary.couponDiscount # 0
    /\ cart.summary.itemCount >= 2
    /\ Len(cart.items) >= 2
    /\ storage = SavedBlob(cart)

\* C9: UpdateQuantity(itemId, q) on a line of the cart: for q <= 0 the
\* resulting state is that of RemoveItem(itemId); otherwise the line's
\* quantity is min(q, MAX_QUANTITY_PER_ITEM), its line total is unitPrice
\* times that, and the other lines are untouched.
C9_UpdateQuantityClampsOrRemoves ==
    \A i \in 1..Len(cart.items), q \in TestQuantities :
        LET x == cart.items[i].id
            after == cartReducer(cart, UpdateQuantity(x, q))
        IN  IF q <= 0
            THEN after = cartReducer(cart, RemoveItem(x))
            ELSE /\ Len(after.items) = Len(cart.items)
                 /\ after.items[i].quantity = Min(q, MAX_QUANTITY_PER_ITEM)
                 /\ after.items[i].totalPrice =
                        cart.items[i].unitPrice * Min(q, MAX_QUANTITY_PER_ITEM)
                 /\ \A j \in 1..Len(cart.items) :
                        j # i => after.items[j] = cart.items[j]

\* A line at the maximum, beside a line that is not: the commands of the
\* model reach it by UpdateQuantity(x, MAX_QUANTITY_PER_ITEM + 1) or by a
\* clamped merge.
C9_Witness ==
    \E i, j \in 1..Len(cart.items) :
        /\ cart.items[i].quantity = MAX_QUANTITY_PER_ITEM
        /\ cart.items[i].totalPrice = cart.items[i].unitPrice * MAX_QUANTITY_PER_ITEM
        /\ cart.items[j].quantity = 1

\* C10: RemoveItem(x) applied twice gives the items, summary and
\* appliedCoupons that RemoveItem(x) applied once gives.
C10_RemoveItemIdempotent ==
    \A x \in TestItemIds :
        LET once == cartReducer(cart, RemoveItem(x))
            twice == cartReducer(once, RemoveItem(x))
        IN  /\ twice.items = once.items
            /\ twice.summary = once.summary
            /\ twice.appliedCoupons = once.appliedCoupons

\* A cart of several lines with a coupon discount in its summary: RemoveItem
\* of one of its lines changes the items and the summary.
C10_Witness ==
    /\ Len(cart.items) >= 2
    /\ cart.appliedCoupons # << >>
    /\ cart.summary.couponDiscount # 0
    /\ \E x \in TestItemIds : cartReducer(cart, RemoveItem(x)).items # cart.items

\* C11: removing, or updating the quantity of, an item id the cart does not
\* hold changes nothing: the items, the summary (couponDiscount and total of
\* the applied coupons included) and the applied coupons stay as they are.
AbsentItemIds(state) == { x \in TestItemIds : FindIndex(state.items, x) = 0 }

SameCartContents(a, b) ==
    /\ a.items = b.items
    /\ a.summary = b.summary
    /\ a.appliedCoupons = b.appliedCoupons

C11_AbsentItemIdIsNoOp ==
    \A x \in AbsentItemIds(cart) :
        /\ SameCartContents(cartReducer(cart, RemoveItem(x)), cart)
        /\ \A q \in TestQuantities :
              SameCartContents(cartReducer(cart, UpdateQuantity(x, q)), cart)

\* C11 with the summary left out: the items and the applied coupons stay.
C11_AbsentItemIdKeepsItemsAndCoupons ==
    \A x \in AbsentItemIds(cart) :
        /\ cartReducer(cart, RemoveItem(x)).items = cart.items
        /\ cartReducer(cart, RemoveItem(x)).appliedCoupons = cart.appliedCoupons
        /\ \A q \in TestQuantities :
              /\ cartReducer(cart, UpdateQuantity(x, q)).items = cart.items
              /\ cartReducer(cart, UpdateQuantity(x, q)).appliedCoupons
                    = cart.appliedCoupons

ZeroSummary ==
    [subtotal |-> 0, shipping |-> 0, tax |-> 0, discount |-> 0,
     couponDiscount |-> 0, total |-> 0, savings |-> 0,
     itemCount |-> 0, uniqueItems |-> 0]

\* C12: the summary computed from an empty item list is all-zero, and every
\* reachable cart with no items has shipping 0 and total 0.
C12_EmptyCartSummaryIsZero ==
    /\ calculateCartSummary(<< >>) = ZeroSummary
    /\ cart.items = << >> =>
          /\ cart.summary.shipping = 0
          /\ cart.summary.total = 0

\* Shipping and tax as the subtotal of the summary gives them.
ShippingAndTaxFollow(s) ==
    /\ s.subtotal >= Cents(FREE_SHIPPING_THRESHOLD) => s.shipping = 0
    /\ s.subtotal < Cents(FREE_SHIPPING_THRESHOLD) => s.shipping = Cents(SHIPPING_FEE)
    /\ s.subtotal % 100 = 0
    /\ s.tax = TAX_RATE_PERCENT * (s.subtotal \div 100)

\* C13: for every item list the computed summary has shipping 0 when the
\* subtotal is at least FREE_SHIPPING_THRESHOLD and the flat fee when it is
\* below, and a tax of TAX_RATE times the subtotal, shipping not taxed.  The
\* item lists are those of the reachable carts.
C13_ShippingAndTaxFollowSubtotal ==
    /\ calculateCartSummary(cart.items).subtotal = SumTotalPrice(cart.items)
    /\ ShippingAndTaxFollow(calculateCartSummary(cart.items))

\* A cart whose subtotal is the threshold exactly, shipped free.
C13_Witness ==
    /\ cart.items # << >>
    /\ cart.summary.subtotal = Cents(FREE_SHIPPING_THRESHOLD)
    /\ cart.summary = calculateCartSummary(cart.items)
    /\ cart.summary.shipping = 0
    /\ cart.summary.tax = Cents(28500)

\* The coupons a discount is asked of, and those of them the store accepts
\* on a cart.
DiscountCoupons == TestCoupons \cup { CAPPED10 }

AcceptedCoupons(state) ==
    { c \in DiscountCoupons : StoreApplyCoupon(state, c).error = NoError }

\* subtotal x value / 100, clamped to the cap when one is set.
PercentageDiscount(subtotal, value, cap) ==
    LET raw == (subtotal \div 100) * value
    IN  IF cap # 0 /\ raw > cap THEN cap ELSE raw

\* C14: the discount of an accepted percentage coupon is subtotal x value /
\* 100 clamped to maxDiscount when set (100000 at 10 percent capped at 5000
\* gives 5000); the discount of an accepted fixed coupon is its value, not
\* clamped to the subtotal.
C14_DiscountOfPercentageAndFixed ==
    LET subtotal == SumTotalPrice(cart.items)
    IN  /\ \A c \in AcceptedCoupons(cart) :
              LET after == StoreApplyCoupon(cart, c).cart
              IN  /\ c.type = "percentage" =>
                        after.summary.couponDiscount
                            = PercentageDiscount(subtotal, c.value, c.maxDiscount)
                  /\ c.type = "fixed" => after.summary.couponDiscount = c.value
        /\ subtotal = Cents(100000) =>
              /\ CAPPED10 \in AcceptedCoupons(cart)
              /\ StoreApplyCoupon(cart, CAPPED10).cart.summary.couponDiscount
                    = Cents(5000)

\* A cart of subtotal 100000 on which the 10 percent coupon without a cap
\* was applied for 10000, and on which the capped one gives 5000; the fixed
\* coupon there exceeds the subtotal.
C14_Witness ==
    /\ SumTotalPrice(cart.items) = Cents(100000)
    /\ cart.appliedCoupons = << WELCOME10 >>
    /\ cart.summary.couponDiscount = Cents(10000)
    /\ StoreApplyCoupon(cart, CAPPED10).cart.summary.couponDiscount = Cents(5000)
    /\ StoreApplyCoupon(cart, BIGFIXED).cart.summary.couponDiscount
          > SumTotalPrice(cart.items)

\* C15: the discount of an accepted free-shipping coupon is the shipping fee
\* the cart would otherwise pay: the flat fee below the free-shipping
\* threshold, 0 from the threshold on.  Stated on the carts that hold items.
C15_FreeShippingDiscountIsShippingFee ==
    cart.items # << >> /\ StoreApplyCoupon(cart, FREESHIP).error = NoError =>
        LET subtotal == SumTotalPrice(cart.items)
            after == StoreApplyCoupon(cart, FREESHIP).cart
        IN  after.summary.couponDiscount
                = IF subtotal >= Cents(FREE_SHIPPING_THRESHOLD)
                  THEN 0 ELSE Cents(SHIPPING_FEE)

\* The coupons the store is handed, the inapplicable ones among them.
StoreCoupons == DiscountCoupons \cup { FREESHIP, INACTIVE, EXPIRED }

\* Active, within its validity window, and the minimum purchase met.
Applicable(coupon, state) ==
    /\ coupon.active
    /\ coupon.validNow
    /\ coupon.minOrderAmount # 0 => state.summary.subtotal >= coupon.minOrderAmount

\* C16: applyCoupon appends a coupon only when it is applicable (active, the
\* current time within its validity window, the minimum purchase met); for
\* any other coupon the cart is left as it is and an error message is set.
C16_OnlyApplicableCouponsApplied ==
    \A c \in StoreCoupons :
        ~Applicable(c, cart) =>
            /\ StoreApplyCoupon(cart, c).cart = cart
            /\ StoreApplyCoupon(cart, c).error # NoError

\* C16 without the validity window: an inactive coupon and one below its
\* minimum purchase are rejected with a message, the cart unchanged.
C16_InactiveOrBelowMinimumRejected ==
    \A c \in StoreCoupons :
        ~(c.active /\ (c.minOrderAmount # 0
                          => cart.summary.subtotal >= c.minOrderAmount)) =>
            /\ StoreApplyCoupon(cart, c).cart = cart
            /\ StoreApplyCoupon(cart, c).error # NoError

\* C17: the store lets no coupon code be applied twice: the applied coupons
\* never hold two coupons of the same code.
C17_CouponCodesDistinct ==
    \A i, j \in 1..Len(cart.appliedCoupons) :
        cart.appliedCoupons[i].code = cart.appliedCoupons[j].code => i = j

\* The codes RemoveCoupon is given: those of the coupons, as they are
\* written and in lower case.
RemoveCodes ==
    { c.code : c \in TestCoupons } \cup { toLowerCase(c.code) : c \in TestCoupons }

\* C18: RemoveCoupon(code) removes every applied coupon whose code equals the
\* given one ignoring letter case and leaves the others in place.
C18_RemoveCouponIgnoresCase ==
    \A code \in RemoveCodes :
        LET after == cartReducer(cart, RemoveCoupon(code))
        IN  /\ after.appliedCoupons
                  = SelectSeq(cart.appliedCoupons,
                              LAMBDA c : toLowerCase(c.code) # toLowerCase(code))
            /\ after.items = cart.items

\* C18 with the codes compared as written: the coupons of exactly the given
\* code are removed, the others stay, the summary is computed from the items.
C18_RemoveCouponExactCode ==
    \A code \in RemoveCodes :
        LET after == cartReducer(cart, RemoveCoupon(code))
        IN  /\ after.appliedCoupons
                  = SelectSeq(cart.appliedCoupons, LAMBDA c : c.code # code)
            /\ after.items = cart.items
            /\ after.summary = calculateCartSummary(cart.items)

ClearCart == [type |-> "CLEAR_CART"]

\* C19: ClearCart from any state gives the empty cart: no items, no applied
\* coupons, an all-zero summary, and the sessionId of the state before.
C19_ClearCartEmptiesKeepingSession ==
    \A sid \in SessionIds :
        LET before == [cart EXCEPT !.sessionId = sid]
            after == cartReducer(before, ClearCart)
        IN  /\ after.items = << >>
            /\ after.appliedCoupons = << >>
            /\ after.summary = ZeroSummary
            /\ after.sessionId = sid

\* A cart with items and an applied coupon, which the clear empties.
C19_Witness ==
    /\ cart.items # << >>
    /\ cart.appliedCoupons # << >>
    /\ cart.summary.total # 0
    /\ cartReducer(cart, ClearCart) = initialCartState(cart.sessionId)

\* The cart a page load under session id sid restores from the saved state.
RoundTrip(state, sid) == Loaded(initialCartState(sid), SavedBlob(state))

\* C20: saving a reachable cart and loading it gives the same items and a
\* summary computed afresh from them, not the saved one.
C20_RoundTripRecomputesSummary ==
    \A sid \in SessionIds :
        /\ RoundTrip(cart, sid).items = cart.items
        /\ RoundTrip(cart, sid).summary = calculateCartSummary(cart.items)

\* C20 as the load effect behaves: the items, the applied coupons and the
\* session id come back as saved, and the summary is the saved one.
C20_RoundTripKeepsSavedSummary ==
    \A sid \in SessionIds :
        /\ RoundTrip(cart, sid).items = cart.items
        /\ RoundTrip(cart, sid).appliedCoupons = cart.appliedCoupons
        /\ RoundTrip(cart, sid).sessionId = cart.sessionId
        /\ RoundTrip(cart, sid).summary = cart.summary

RestoreCart(blob) == [type |-> "RESTORE_CART", cart |-> blob]

\* C22: the session id is left as it is by AddItem, RemoveItem,
\* UpdateQuantity, ApplyCoupon, RemoveCoupon and ClearCart, and a cart saved
\* and loaded carries the session id that was saved: no step of the store,
\* the page load on a saved cart among them, changes it.
C22_SessionIdKept == [][cart'.sessionId = cart.sessionId]_vars

\* A saved cart with items, loaded by a page whose module drew another id.
C22_Witness ==
    /\ cart.items # << >>
    /\ storage = SavedBlob(cart)
    /\ \E fresh \in SessionIds :
          /\ fresh # cart.sessionId
          /\ RoundTrip(cart, fresh).sessionId = cart.sessionId

\* The payload with the price of its product changed.
Repriced(payload) ==
    [payload EXCEPT !.product.price = payload.product.price + Cents(10000)]

\* The payload that adds quantity units to a line, as the product page
\* builds it.
PayloadOfLine(line, quantity) ==
    [product |-> line.product, quantity |-> quantity,
     selectedVariant |-> line.selectedVariant]

\* The line differs from old in quantity and line total at most, its line
\* total the unit price of old times its quantity.
FrozenLine(line, old) ==
    /\ line.unitPrice = old.unitPrice
    /\ line.totalPrice = old.unitPrice * line.quantity
    /\ [line EXCEPT !.quantity = old.quantity,
                    !.totalPrice = old.totalPrice,
                    !.subtotal = old.subtotal] = old

\* C24: AddItem for a (product, variant) already in the cart leaves the
\* unit price of the line as it is even when the incoming product carries
\* another price; the quantity and the line total change, the line total
\* being the original unit price times the new quantity.
C24_PriceFrozenOnMerge ==
    \A k \in 1..Len(cart.items) :
        FindIndex(cart.items, cart.items[k].id) = k =>
            FrozenLine(cartReducer(cart,
                           AddItem(Repriced(PayloadOfLine(cart.items[k], 1)))).items[k],
                       cart.items[k])

\* A line below the maximum quantity, to which a unit at another price is
\* added.
C24_Witness ==
    \E k \in 1..Len(cart.items) :
        LET a == Repriced(PayloadOfLine(cart.items[k], 1))
            line == cartReducer(cart, AddItem(a)).items[k]
        IN  /\ line.quantity = cart.items[k].quantity + 1
            /\ line.unitPrice = cart.items[k].unitPrice
            /\ line.unitPrice # NewItemUnitPrice(a.product, a.selectedVariant)

\* Every line total is unit price times quantity.
LineTotalsExact(items) ==
    \A i \in 1..Len(items) : items[i].totalPrice = items[i].unitPrice * items[i].quantity

\* C25: in every state the reducer commands reach, every line total is
\* unitPrice x quantity and the subtotal is the sum of the line totals; the
\* unit price a line was created with is product.price plus the price of
\* the selected variant (0 without one), counted once.
C25_LineTotalsAndSubtotal ==
    /\ LineTotalsExact(cart.items)
    /\ cart.summary.subtotal = SumTotalPrice(cart.items)
    /\ \A i \in 1..Len(cart.items) :
          /\ cart.items[i].unitPrice
                = cart.items[i].product.price
                    + cart.items[i].selectedVariant.additionalPrice
          /\ cart.items[i].priceAtAddTime = cart.items[i].unitPrice

\* A cart holding a line with a variant, its unit price the price of the
\* product plus that of the variant.
C25_Witness ==
    \E i \in 1..Len(cart.items) :
        /\ cart.items[i].selectedVariant # NoVariant
        /\ cart.items[i].quantity >= 2
        /\ cart.items[i].unitPrice
              = cart.items[i].product.price + cart.items[i].selectedVariant.additionalPrice
        /\ cart.items[i].totalPrice = cart.items[i].unitPrice * cart.items[i].quantity
        /\ cart.summary.subtotal = SumTotalPrice(cart.items)

\* A session id the stored cart does not carry: that of a fresh module.
FreshSessionId(slot) == CHOOSE sid \in SessionIds : sid # slot.sessionId

\* C27: RestoreCart replaces the state wholesale: the items, the applied
\* coupons and the session id are those of the restored cart, and an item
\* added to the empty default before the restore leaves no trace.
C27_RestoreReplacesWholesale ==
    storage # NoBlob =>
        LET fresh == initialCartState(FreshSessionId(storage))
            restored == cartReducer(fresh, RestoreCart(storage))
        IN  /\ restored.items = storage.items
            /\ restored.appliedCoupons = storage.appliedCoupons
            /\ restored.sessionId = storage.sessionId
            /\ cartReducer(cartReducer(fresh, AddItem(CardPayload)),
                            RestoreCart(storage)) = restored

\* A stored cart with items and a coupon, and an item added to the empty
\* default before the restore.
C27_Witness ==
    /\ storage # NoBlob
    /\ storage.items # << >>
    /\ storage.appliedCoupons # << >>
    /\ cartReducer(initialCartState(FreshSessionId(storage)),
                    AddItem(CardPayload)).items = << CardLine >>
    /\ cartReducer(cartReducer(initialCartState(FreshSessionId(storage)),
                                AddItem(CardPayload)),
                    RestoreCart(storage)).items = storage.items

\* C29: every applied coupon with a minimum purchase has it met by the
\* subtotal of the cart: no coupon stays applied once RemoveItem,
\* UpdateQuantity or ClearCart took the subtotal below its minimum.
C29_AppliedCouponsMeetMinimum ==
    \A i \in 1..Len(cart.appliedCoupons) :
        cart.appliedCoupons[i].minOrderAmount # 0 =>
            cart.summary.subtotal >= cart.appliedCoupons[i].minOrderAmount

---------------------------------------------------------------------------
(* Claims on EffectSpec                                                    *)

\* C21: when the slot holds data that does not parse, or that parses to an
\* object short of required fields (items, summary), the load leaves the
\* empty default cart and discards the stored blob.
C21_CorruptSlotGivesEmptyDefault ==
    [][pc = "load" /\ storage \in CorruptSlots =>
          /\ cart' = initialCartState(cart.sessionId)
          /\ storage' = NoBlob]_vars

\* C21 for the slot that does not parse: the cart stays the empty default
\* and the slot is emptied.
C21_MalformedSlotDiscarded ==
    [][pc = "load" /\ storage = Malformed =>
          /\ cart' = initialCartState(cart.sessionId)
          /\ storage' = NoBlob]_vars

\* C23: a save that throws is swallowed: the cart the reducer produced and
\* the render shows stays, the slot and the error state are left as they
\* were, and the provider goes on to accept commands.
C23_FailingSaveSwallowed ==
    /\ [][pc = "save" /\ ~writable =>
            /\ cart' = cart
            /\ rendered' = rendered
            /\ error' = error
            /\ storage' = storage
            /\ pc' = "idle"]_vars
    /\ [](~writable /\ Settled => ENABLED handleAddToCart)

\* A cart with items, rendered, whose save threw: the slot does not hold it
\* and no error is set.
C23_Witness ==
    /\ ~writable
    /\ Settled
    /\ mounted
    /\ Len(cart.items) = 1
    /\ cart.items[1].quantity = 2
    /\ storage # SavedBlob(cart)
    /\ error = NoError

\* C26: the minimum purchase of a coupon is checked against the subtotal of
\* the state the coupon is applied to: a coupon is appended only when that
\* subtotal meets its minimum, also when applyCoupon follows a
\* removeFromCart of the same event.
C26_MinimumCheckedOnCurrentState ==
    [][/\ pc = "idle" /\ pc' = "idle"
       /\ Len(cart'.appliedCoupons) = Len(cart.appliedCoupons) + 1
       => LET coupon == cart'.appliedCoupons[Len(cart'.appliedCoupons)]
          IN  coupon.minOrderAmount # 0 =>
                  cart.summary.subtotal >= coupon.minOrderAmount]_vars

\* The restore of a stored cart with items is dispatched and not rendered
\* yet: the render still shows the empty default of the fresh module.
RestorePending ==
    /\ "items" \in DOMAIN storage
    /\ "sessionId" \in DOMAIN storage
    /\ storage.items # << >>
    /\ cart.sessionId = storage.sessionId
    /\ rendered = initialCartState(rendered.sessionId)
    /\ rendered.sessionId # cart.sessionId

\* C28: at startup with a stored cart that holds items, the save effect
\* does not write the empty default over the slot before the restore is
\* rendered, and once the effects have settled the slot holds the cart.
C28_StartupKeepsStoredCart ==
    /\ [][pc = "save" /\ RestorePending => storage' = storage]_vars
    /\ [](Settled /\ mounted /\ writable => storage = SavedBlob(cart))

\* The change of quantity a button of the drawer asks for.
ButtonDelta(button) == IF button = "plus" THEN 1 ELSE 0 - 1

\* C30: when the delay of the drawer is over, the quantity of the line is
\* the quantity it has by then changed by the click, within the maximum: a
\* change made during the delay is kept.
C30_DelayedChangeKeepsConcurrentOne ==
    [][/\ pc = "idle" /\ pc' = "idle"
       /\ pending # NoPending /\ pending' = NoPending
       => LET k == FindIndex(cart.items, pending.itemId)
          IN  k >= 1 =>
                cart'.items[k].quantity
                    = Min(cart.items[k].quantity + ButtonDelta(pending.button),
                          MAX_QUANTITY_PER_ITEM)]_vars

=============================================================================
